---- MODULE Spec2Model ----
(***************************************************************************)
(* Interruption scheduling and crossfade coordination of the player box:   *)
(* app/interruption_manager.py (InterruptionManager),                      *)
(* app/volume_controller.py (VolumeController) and the parts of            *)
(* app/player.py (Player) that drive them.                                 *)
(*                                                                         *)
(* Time is counted in ticks of one fade step: step_time =                  *)
(* duration_ms / (steps * 1000) seconds, so one second is                  *)
(* steps * 1000 / 5000 = 6 ticks.  Volumes of the main channel are kept    *)
(* multiplied by `steps`, so that start + volume_step * k is an integer.   *)
(* (For the fades the code performs, 100 -> 0 and 0 -> 100, the float      *)
(* arithmetic of the source gives exactly these values after clamping.)    *)
(*                                                                         *)
(* Every threading.Timer is a slot of `timers`.  A handler runs as one     *)
(* step, except _start_interruption, which blocks in time.sleep(1): its    *)
(* second half is a slot of kind "sleep".  A timer fires at its due time   *)
(* (time does not pass a due timer).                                       *)
(***************************************************************************)
EXTENDS Integers, Sequences, FiniteSets, TLC

\* ------------------------------------------------------------ bounds
MaxTime == 130        \* the clock's horizon, in ticks
MaxTimers == 5        \* timer slots
MaxCommands == 2      \* remote commands in one run
ClipLen == 6          \* duration of an interruption clip, in ticks

\* ------------------------------------------------- program constants
steps == 30                        \* _fade_volume: steps = 30
FadeMs == 5000                     \* play_interruption: _fade_volume(.., 5000, ..)
MaxVolume == 100                   \* min(max(v, 0), 100)
main_player_original_volume == 100 \* VolumeController.__init__
campaign_duration_seconds == 30    \* _check_and_play_campaign
FadeLeadSeconds == 5               \* fade starts 5 seconds before the start time
MinDelaySeconds == 2               \* max(time_until_fade, 2)
SettleSeconds == 1                 \* time.sleep(1)
DefaultLocationVolume == 10        \* location_volume = 10.0
VolumeStep == 10                   \* volume-up / volume-down

Sec == (steps * 1000) \div FadeMs  \* ticks in one second
step_time == 1                     \* duration_ms / (steps * 1000) s, in ticks

None == "none"
NoTimer == 0       \* a timer field holding None
Done == -1         \* a timer field holding a Timer that has fired or was cancelled
NoVolume == -1     \* no interruption under way
BadStamp == -1     \* a start timestamp datetime.fromisoformat cannot parse

Types == {"prayer", "campaign", "birthday"}

Min(S) == CHOOSE x \in S : \A y \in S : x <= y
Max2(a, b) == IF a >= b THEN a ELSE b
Min2(a, b) == IF a <= b THEN a ELSE b
Clamp(v, lo, hi) == Min2(Max2(v, lo), hi)

\* --------------------------------------------------------- the data
Interruption(type, start, exact) == [type |-> type, start |-> start, exact |-> exact]
NoInterruption == Interruption(None, 0, FALSE)

Callback(k, type) == [k |-> k, type |-> type]
NoCallback == Callback(None, None)

Timer(kind, due, intr, step, sv, ev, cb) ==
    [kind |-> kind, due |-> due, intr |-> intr, step |-> step,
     sv |-> sv, ev |-> ev, cb |-> cb]
FreeSlot == Timer("free", 0, NoInterruption, 0, 0, 0, NoCallback)

\* location data: the start stamps of prayerTimes, the ads (start, exactTime),
\* volume (0..10, or -1 for a missing or invalid one), isBdayEnabled
Location(prayers, ads, vol, bday) ==
    [prayers |-> prayers, ads |-> ads, volume |-> vol, isBdayEnabled |-> bday]
Ad(start, exact) == [start |-> start, exact |-> exact]

\* What a start command can bring: the location data and the playlist's
\* locationOffset (stamps in ticks, UTC).
\*   1: a prayer that is playing when the campaign timer fires
\*   2: a campaign whose check finds the prayer about to start (offset 6)
\*   3: no prayer; an exact-time campaign and one inside the 2 s floor
\*   4: a prayer exactly campaign_duration_seconds after the campaign check
\*   5: one prayer stamp does not parse; the campaigns are sound
Session(data, offset) == [data |-> data, offset |-> offset]
Sessions ==
    { Session(Location({36}, {Ad(60, FALSE), Ad(126, FALSE)}, 5, TRUE), 0),
      Session(Location({84}, {Ad(30, FALSE)}, 10, TRUE), 6),
      Session(Location({}, {Ad(36, TRUE), Ad(48, FALSE)}, -1, TRUE), 0),
      Session(Location({192}, {Ad(36, FALSE)}, 3, FALSE), 0),
      Session(Location({BadStamp, 60}, {Ad(66, FALSE)}, 5, FALSE), 0) }

\* The instants at which a remote command arrives, one command at each.
CommandTimes == {0, 20, 40, 60}

\* The instants at which a sink can start to fail: before anything plays, and
\* in the middle of a fade.
FailTimes == {0, 20}

\* What the interrupt channel reports as its duration after the settle delay:
\* 0 stands for None or 0.
Durations == {0, ClipLen}

VARIABLES
    now,                        \* wall clock, in ticks
    location_data,              \* InterruptionManager.location_data: <<>> or <<data>>
    location_offset,            \* InterruptionManager.location_offset
    next_prayer,                \* <<>> or <<entry>>
    next_campaign,              \* <<>> or <<entry>>
    prayer_timer,               \* NoTimer, Done or a slot
    campaign_timer,
    current_interruption_type,  \* None, "prayer", "campaign", "birthday"
    fade_timer,                 \* VolumeController.fade_timer
    completion_callback,        \* VolumeController.completion_callback: the type it completes
    target_volume,              \* VolumeController.target_volume
    main_volume,                \* main_player.volume * steps
    main_pause,                 \* main_player.pause
    interruption_volume,        \* interruption_player.volume
    interruption_file,          \* what interruption_player last loaded (its type)
    volume,                     \* Player.volume
    timers,                     \* the Timer objects that are started and not yet run
    cached,                     \* the types whose audio file is in the cache
    main_ok,                    \* FALSE: accesses of main_player raise
    interruption_ok,            \* FALSE: accesses of interruption_player raise
    setup_thread,               \* <<>>, or the remote-control thread preempted inside setup
    fade_thread,                \* <<>>, or the timer thread of a fade step preempted inside do_fade
    commands,                   \* remote commands received so far: how many, the last one when
    volume_before,              \* history: main_player.volume * steps when the fade-out of the
                                \* interruption under way began; NoVolume when idle
    fade_run,                   \* one _fade_volume call in binary64: its arguments, its steps so far
    playlist_pos,               \* the last playlist-pos change: the track, the index, the seek issued
    queue,                      \* the playlist counters of Player and mpv's playlist of the main player
    websocket,                  \* WebSocketClient and the locals of its _maintain_connection thread
    sqs,                        \* SQSClient and the locals of its _poll_queue thread
    last                        \* the handler that ran last, and what it did

program == <<now, location_data, location_offset, next_prayer, next_campaign,
          prayer_timer, campaign_timer, current_interruption_type, fade_timer,
          completion_callback, target_volume, main_volume, main_pause,
          interruption_volume, interruption_file, volume, timers, cached,
          main_ok, interruption_ok, setup_thread, fade_thread, commands, last,
          volume_before>>

vars == <<program, fade_run, playlist_pos, queue, websocket, sqs>>

\* The program's state as one record, for the handlers, which are functions
\* of it.  The last fields are per-handler bookkeeping: calls, the number of
\* completion-handling calls made; raised, whether the last of them took its
\* except path; idle and paused, whether the state was idle and what
\* main_player.pause was when it returned; exc, whether the
\* volume controller took an except path; lost, whether a callback was lost to
\* an uncaught exception; ret, the handler's return value; loaded, whether
\* it called interruption_player.loadfile; full, "no timer
\* slot left".
S == [now |-> now, location_data |-> location_data,
      location_offset |-> location_offset, next_prayer |-> next_prayer,
      next_campaign |-> next_campaign, prayer_timer |-> prayer_timer,
      campaign_timer |-> campaign_timer,
      current_interruption_type |-> current_interruption_type,
      fade_timer |-> fade_timer, completion_callback |-> completion_callback,
      target_volume |-> target_volume, main_volume |-> main_volume,
      main_pause |-> main_pause, interruption_volume |-> interruption_volume,
      interruption_file |-> interruption_file, volume |-> volume,
      timers |-> timers, cached |-> cached, main_ok |-> main_ok,
      interruption_ok |-> interruption_ok, setup_thread |-> setup_thread,
      fade_thread |-> fade_thread,
      calls |-> 0, raised |-> FALSE, idle |-> TRUE, paused |-> FALSE, exc |-> FALSE,
      lost |-> FALSE, ret |-> TRUE, loaded |-> FALSE, full |-> FALSE]

\* ------------------------------------------------------- threading.Timer
FreeIds(s) == {i \in 1..MaxTimers : s.timers[i].kind = "free"}
NewId(s) == IF FreeIds(s) = {} THEN NoTimer ELSE Min(FreeIds(s))

\* Timer(...).start()
StartTimer(s, id, t) ==
    IF id = NoTimer THEN [s EXCEPT !.full = TRUE]
    ELSE [s EXCEPT !.timers[id] = t]

\* Timer.cancel(): no effect on a timer that has fired
CancelTimer(s, ref) ==
    IF ref > 0 THEN [s EXCEPT !.timers[ref] = FreeSlot] ELSE s

LiveIn(s, kind) == {i \in 1..MaxTimers : s.timers[i].kind = kind}

\* -------------------------------------------- InterruptionManager: schedule
\* start_time - timedelta(seconds=self.location_offset * -1)
Shifted(s, start) == start + s.location_offset

\* _schedule_prayer, lines 201-204: "if self.prayer_timer: cancel()"; the
\* field keeps the cancelled Timer
CancelPrayerTimer(s) ==
    IF s.prayer_timer # NoTimer
    THEN [CancelTimer(s, s.prayer_timer) EXCEPT !.prayer_timer = Done]
    ELSE s

\* _schedule_prayer, lines 206-214: store the entry, create and start the timer
InstallPrayerTimer(s, prayer) ==
    LET time_until_fade == (prayer.start - FadeLeadSeconds * Sec) - s.now
        s2 == [s EXCEPT !.next_prayer = <<prayer>>]
        id == NewId(s2)
    IN  [StartTimer(s2, id, Timer("prayer", s.now + time_until_fade, prayer,
                                  0, 0, 0, NoCallback))
           EXCEPT !.prayer_timer = id]

\* _schedule_prayer
SchedulePrayer(s, prayer) == InstallPrayerTimer(CancelPrayerTimer(s), prayer)

\* The 2-second floor is applied to exact-time campaigns as well.
CampaignDelayAlwaysFloored(campaign, delay_seconds) ==
    Max2(delay_seconds - FadeLeadSeconds * Sec, MinDelaySeconds * Sec)

\* _schedule_campaign: the delay of the campaign timer
CampaignDelay(campaign, delay_seconds) ==
    LET time_until_fade == delay_seconds - FadeLeadSeconds * Sec
    IN  IF campaign.exact THEN time_until_fade
        ELSE Max2(time_until_fade, MinDelaySeconds * Sec)

\* _schedule_campaign, lines 166-169: "if self.campaign_timer: cancel()"; the
\* field keeps the cancelled Timer
CancelCampaignTimer(s) ==
    IF s.campaign_timer # NoTimer
    THEN [CancelTimer(s, s.campaign_timer) EXCEPT !.campaign_timer = Done]
    ELSE s

\* _schedule_campaign, lines 171-179: store the entry, create and start the timer
InstallCampaignTimer(s, campaign, delay_seconds) ==
    LET next_delay == CampaignDelay(campaign, delay_seconds)
        s2 == [s EXCEPT !.next_campaign = <<campaign>>]
        id == NewId(s2)
    IN  [StartTimer(s2, id, Timer("campaign", s.now + next_delay, campaign,
                                  0, 0, 0, NoCallback))
           EXCEPT !.campaign_timer = id]

\* _schedule_campaign
ScheduleCampaign(s, campaign, delay_seconds) ==
    InstallCampaignTimer(CancelCampaignTimer(s), campaign, delay_seconds)

\* "if now < timezone_adjusted_start"
IsFuture(s, start) == s.now < Shifted(s, start)

\* _setup_next_prayer.  sorted(..., key=fromisoformat(x['start'])) raises on a
\* stamp that does not parse, outside the per-entry try: the outer except
\* ends the setup of this type.
PrayerChoice(s) ==
    LET prayers == s.location_data[1].prayers
        future == {p \in prayers : IsFuture(s, p)}
    IN  IF prayers = {} THEN <<>>
        ELSE IF BadStamp \in prayers THEN <<>>
        ELSE IF future = {} THEN <<>>
        ELSE <<Interruption("prayer", Shifted(s, Min(future)), FALSE)>>

SetupNextPrayer(s) ==
    IF PrayerChoice(s) = <<>> THEN s ELSE SchedulePrayer(s, PrayerChoice(s)[1])

\* _setup_next_campaign: the candidate it schedules, if any
CampaignChoice(s) ==
    LET campaigns == s.location_data[1].ads
        future == {c \in campaigns : c.start # BadStamp /\ IsFuture(s, c.start)}
        first == CHOOSE c \in future : \A o \in future : c.start <= o.start
    IN  IF campaigns = {} THEN <<>>
        ELSE IF \E c \in campaigns : c.start = BadStamp THEN <<>>
        ELSE IF future = {} THEN <<>>
        ELSE <<Interruption("campaign", Shifted(s, first.start), first.exact)>>

\* _setup_next_campaign; delay_seconds = (timezone_adjusted_start - now)
SetupNextCampaign(s) ==
    IF CampaignChoice(s) = <<>> THEN s
    ELSE ScheduleCampaign(s, CampaignChoice(s)[1], CampaignChoice(s)[1].start - s.now)

\* setup_interruptions
SetupInterruptions(s, data, offset) ==
    LET s1 == [s EXCEPT !.location_data = <<data>>, !.location_offset = offset]
    IN  SetupNextCampaign(SetupNextPrayer(s1))

\* Completion of a prayer also clears and recomputes the campaign schedule.
ResetScheduleOfBoth(s, interruption_type) ==
    IF interruption_type = "campaign" THEN
        LET s1 == [s EXCEPT !.next_campaign = <<>>]
            s2 == IF s1.campaign_timer # NoTimer
                  THEN [CancelTimer(s1, s1.campaign_timer) EXCEPT !.campaign_timer = NoTimer]
                  ELSE s1
        IN  IF s2.location_data # <<>> THEN SetupNextCampaign(s2) ELSE s2
    ELSE IF interruption_type = "prayer" THEN
        LET s1 == [s EXCEPT !.next_prayer = <<>>, !.next_campaign = <<>>]
            s2 == IF s1.prayer_timer # NoTimer
                  THEN [CancelTimer(s1, s1.prayer_timer) EXCEPT !.prayer_timer = NoTimer]
                  ELSE s1
            s3 == IF s2.campaign_timer # NoTimer
                  THEN [CancelTimer(s2, s2.campaign_timer) EXCEPT !.campaign_timer = NoTimer]
                  ELSE s2
        IN  IF s3.location_data # <<>> THEN SetupNextCampaign(SetupNextPrayer(s3)) ELSE s3
    ELSE s

\* _handle_interruption_complete, lines 300-318: the schedule of the type
ResetSchedule(s, interruption_type) ==
    IF interruption_type = "campaign" THEN
        LET s1 == [s EXCEPT !.next_campaign = <<>>]
            s2 == IF s1.campaign_timer # NoTimer
                  THEN [CancelTimer(s1, s1.campaign_timer) EXCEPT !.campaign_timer = NoTimer]
                  ELSE s1
        IN  IF s2.location_data # <<>> THEN SetupNextCampaign(s2) ELSE s2
    ELSE IF interruption_type = "prayer" THEN
        LET s1 == [s EXCEPT !.next_prayer = <<>>]
            s2 == IF s1.prayer_timer # NoTimer
                  THEN [CancelTimer(s1, s1.prayer_timer) EXCEPT !.prayer_timer = NoTimer]
                  ELSE s1
        IN  IF s2.location_data # <<>> THEN SetupNextPrayer(s2) ELSE s2
    ELSE s

\* _handle_interruption_complete, lines 324-335: reading main_player.pause
\* raises when the sink fails; the except branch resets the state only.
ResumeMain(s) ==
    IF ~s.main_ok
    THEN [s EXCEPT !.current_interruption_type = None, !.raised = TRUE,
                   !.idle = TRUE, !.paused = s.main_pause]
    ELSE [s EXCEPT !.main_pause = FALSE, !.raised = FALSE,
                   !.idle = (s.current_interruption_type = None), !.paused = FALSE]

\* _handle_interruption_complete
HandleInterruptionComplete(s, interruption_type) ==
    LET s1 == ResetSchedule(s, interruption_type)
        s2 == [s1 EXCEPT !.current_interruption_type = None, !.calls = @ + 1]
    IN  ResumeMain(s2)

\* ------------------------------------------------------- VolumeController
\* _start_interruption up to time.sleep(1); the rest runs SettleSeconds later
StartInterruption(s, type) ==
    IF ~s.interruption_ok THEN HandleInterruptionComplete([s EXCEPT !.exc = TRUE], type)
    ELSE LET s1 == [s EXCEPT !.interruption_volume = s.target_volume,
                             !.interruption_file = type, !.loaded = TRUE]
         IN  IF ~s1.main_ok THEN HandleInterruptionComplete([s1 EXCEPT !.exc = TRUE], type)
             ELSE LET s2 == [s1 EXCEPT !.main_volume = 0]
                  IN  StartTimer(s2, NewId(s2),
                                 Timer("sleep", s2.now + SettleSeconds * Sec, NoInterruption,
                                       0, 0, 0, Callback("complete", type)))

\* _start_interruption after time.sleep(1).  A read of duration that raises
\* leaves `duration` unbound: "if duration" raises, and the except branch
\* calls the completion callback.  duration = 0 stands for None or 0.
FinishStartInterruption(s, type, duration) ==
    LET s1 == [s EXCEPT !.completion_callback = type]
    IN  IF ~s.interruption_ok THEN HandleInterruptionComplete([s1 EXCEPT !.exc = TRUE], type)
        ELSE IF duration = 0 THEN s1
        ELSE LET id == NewId(s1)
             IN  [StartTimer(s1, id, Timer("end", s1.now + duration, NoInterruption,
                                           0, 0, 0, NoCallback))
                    EXCEPT !.fade_timer = id]

\* callback()
RunCallback(s, cb) ==
    IF cb.k = "start" THEN StartInterruption(s, cb.type)
    ELSE IF cb.k = "complete" THEN HandleInterruptionComplete(s, cb.type)
    ELSE s

\* start_volume + volume_step * current_step, clamped (times steps)
StepVolume(sv, ev, current_step) ==
    Clamp(sv * steps + (ev - sv) * current_step, 0, MaxVolume * steps)

\* do_fade, lines 135-141: "self.main_player.volume = current_volume"
ApplyStep(s, sv, ev, current_step) ==
    [s EXCEPT !.main_volume = StepVolume(sv, ev, current_step)]

\* do_fade, lines 148-149: "self.fade_timer = Timer(step_time, ...); start()"
ScheduleNextStep(s, sv, ev, cb, current_step) ==
    LET id == NewId(s)
    IN  [StartTimer(s, id, Timer("fade", s.now + step_time, NoInterruption,
                                 current_step + 1, sv, ev, cb))
           EXCEPT !.fade_timer = id]

\* _fade_volume.do_fade.  After the last step, reading main_player.volume is
\* outside any try: when it raises, the timer thread ends and the callback is
\* not called (lost).
DoFade(s, sv, ev, cb, current_step) ==
    IF current_step > steps THEN
        IF ~s.main_ok THEN [s EXCEPT !.lost = TRUE, !.exc = TRUE] ELSE RunCallback(s, cb)
    ELSE IF ~s.main_ok THEN RunCallback([s EXCEPT !.exc = TRUE], cb)
    ELSE ScheduleNextStep(ApplyStep(s, sv, ev, current_step), sv, ev, cb, current_step)

\* _fade_volume
FadeVolume(s, start_volume, end_volume, cb) ==
    LET s1 == IF s.fade_timer # NoTimer
              THEN [CancelTimer(s, s.fade_timer) EXCEPT !.fade_timer = NoTimer]
              ELSE s
    IN  DoFade(s1, Clamp(start_volume, 0, MaxVolume), Clamp(end_volume, 0, MaxVolume), cb, 0)

\* VolumeController.play_interruption
VCPlayInterruption(s, type, location_volume) ==
    LET s1 == [s EXCEPT !.target_volume = Clamp(location_volume * 10, 0, MaxVolume)]
    IN  FadeVolume(s1, main_player_original_volume, 0, Callback("start", type))

\* on_end_file
OnEndFile(s) ==
    FadeVolume(s, 0, main_player_original_volume,
               IF s.completion_callback = None THEN NoCallback
               ELSE Callback("complete", s.completion_callback))

\* ------------------------------------------- InterruptionManager: playing
\* The guard tests is_in_silence, which nothing sets, instead of the state.
PrayerActiveBySilenceFlag(s) == s.current_interruption_type = "prayer" /\ FALSE

\* "if self.current_interruption_type == 'prayer'"
PrayerActive(s) == s.current_interruption_type = "prayer"

\* The location's volume is used as it is, without the range check.
LocationVolumeUnchecked(s) ==
    IF s.location_data = <<>> THEN DefaultLocationVolume
    ELSE s.location_data[1].volume

\* _play_interruption, lines 261-268
LocationVolume(s) ==
    IF s.location_data = <<>> THEN DefaultLocationVolume
    ELSE IF s.location_data[1].volume \in 0..10 THEN s.location_data[1].volume
    ELSE DefaultLocationVolume

\* InterruptionStorage.get_interruption_path
Resolves(s, type) == type \in s.cached

\* An unresolved hash ends the request without completion handling.
PlayInterruptionDropsUnresolved(s, interruption) ==
    IF PrayerActive(s) THEN s
    ELSE IF ~Resolves(s, interruption.type) THEN s
    ELSE [VCPlayInterruption(s, interruption.type, LocationVolume(s))
            EXCEPT !.current_interruption_type = interruption.type]

\* _play_interruption
PlayInterruption(s, interruption) ==
    IF PrayerActive(s) THEN s
    ELSE IF ~Resolves(s, interruption.type)
         THEN HandleInterruptionComplete(s, interruption.type)
    ELSE [VCPlayInterruption(s, interruption.type, LocationVolume(s))
            EXCEPT !.current_interruption_type = interruption.type]

\* The window ends at the fade lead (5 s) instead of the campaign's duration.
PrayerAboutToStartShortWindow(s) ==
    /\ s.next_prayer # <<>>
    /\ s.now < s.next_prayer[1].start
    /\ s.next_prayer[1].start < s.now + FadeLeadSeconds * Sec

\* "if now < self.next_prayer['start'] < campaign_end"
PrayerAboutToStart(s) ==
    /\ s.next_prayer # <<>>
    /\ s.now < s.next_prayer[1].start
    /\ s.next_prayer[1].start < s.now + campaign_duration_seconds * Sec

\* _check_and_play_campaign
CheckAndPlayCampaign(s, campaign) ==
    IF PrayerActive(s) THEN
        LET s1 == [s EXCEPT !.next_campaign = <<>>]
            s2 == IF s1.campaign_timer # NoTimer
                  THEN [CancelTimer(s1, s1.campaign_timer) EXCEPT !.campaign_timer = NoTimer]
                  ELSE s1
        IN  IF s2.location_data # <<>> THEN SetupNextCampaign(s2) ELSE s2
    ELSE IF PrayerAboutToStart(s) THEN s
    ELSE PlayInterruption(s, campaign)

\* trigger_birthday; ret is its return value
TriggerBirthday(s) ==
    IF s.location_data = <<>> THEN [s EXCEPT !.ret = FALSE]
    ELSE IF ~s.location_data[1].isBdayEnabled THEN [s EXCEPT !.ret = FALSE]
    ELSE IF PrayerActive(s) THEN [s EXCEPT !.ret = FALSE]
    ELSE [PlayInterruption(s, Interruption("birthday", 0, FALSE)) EXCEPT !.ret = TRUE]

\* ------------------------------------------------------------------ Player
\* Player._setup_location, lines 266-278
LocationToVolume(data) ==
    IF data.volume \in 0..10 THEN data.volume * 10 ELSE MaxVolume

\* Player.play (the playlist is not empty); a sink that raises leaves both
\* properties as they were
Play(s) ==
    IF ~s.main_ok THEN s
    ELSE [s EXCEPT !.main_pause = FALSE, !.main_volume = s.volume * steps]

\* Player.start_playback_by_guid: _setup_location, then play
StartPlaybackByGuid(s, data, offset) ==
    LET s1 == [s EXCEPT !.volume = LocationToVolume(data)]
    IN  Play(SetupInterruptions(s1, data, offset))

\* Player.start_playback_by_guid on the remote-control thread, preempted
\* inside _schedule_prayer or _schedule_campaign after the old timer is
\* cancelled and before the new one is installed (no lock is held).
PreemptedAt(s, data, offset, at) ==
    LET s1 == [s EXCEPT !.volume = LocationToVolume(data),
                        !.location_data = <<data>>, !.location_offset = offset]
        s2 == IF at = "prayer" THEN s1 ELSE SetupNextPrayer(s1)
    IN  IF at = "prayer" THEN PrayerChoice(s2) ELSE CampaignChoice(s2)

SuspendSetup(s, data, offset, at) ==
    LET s1 == [s EXCEPT !.volume = LocationToVolume(data),
                        !.location_data = <<data>>, !.location_offset = offset]
        s2 == IF at = "prayer" THEN CancelPrayerTimer(s1)
              ELSE CancelCampaignTimer(SetupNextPrayer(s1))
        entry == PreemptedAt(s, data, offset, at)[1]
    IN  [s2 EXCEPT !.setup_thread =
                      <<[at |-> at, intr |-> entry, delay |-> entry.start - s.now]>>]

\* the rest of start_playback_by_guid when the thread runs again
ResumeSetup(s) ==
    LET th == s.setup_thread[1]
        s0 == [s EXCEPT !.setup_thread = <<>>]
    IN  IF th.at = "prayer"
        THEN Play(SetupNextCampaign(InstallPrayerTimer(s0, th.intr)))
        ELSE Play(InstallCampaignTimer(s0, th.intr, th.delay))

\* Player.stop
Stop(s) ==
    LET s1 == IF s.main_ok THEN [s EXCEPT !.main_pause = TRUE] ELSE s
    IN  IF s1.interruption_ok THEN [s1 EXCEPT !.interruption_file = None] ELSE s1

\* The argument is stored and handed to the player as it comes.
SetVolumeUnclamped(s, v) ==
    LET s1 == [s EXCEPT !.volume = v]
    IN  IF s1.main_ok THEN [s1 EXCEPT !.main_volume = s1.volume * steps] ELSE s1

\* Player.set_volume
SetVolume(s, v) ==
    LET s1 == [s EXCEPT !.volume = Clamp(v, 0, MaxVolume)]
    IN  IF s1.main_ok THEN [s1 EXCEPT !.main_volume = s1.volume * steps] ELSE s1

\* WebSocketClient._handle_volume_up / _handle_volume_down
VolumeUp(s) == SetVolume(s, Min2(s.volume + VolumeStep, MaxVolume))
VolumeDown(s) == SetVolume(s, Max2(s.volume - VolumeStep, 0))

\* ----------------------------------------------------------------- actions
\* The cache states a run can start in.
CacheChoices == {Types, Types \ {"campaign"}, Types \ {"prayer"}, Types \ {"birthday"}}

Outcome(op, type, r) ==
    [op |-> op, type |-> type, calls |-> r.calls, raised |-> r.raised,
     idle |-> r.idle, paused |-> r.paused, exc |-> r.exc, lost |-> r.lost,
     ret |-> r.ret, loaded |-> r.loaded]

\* The handler whose result is r began the fade-out of an interruption: the
\* timer of the fade's step 1 is new.
FadeOutBegins(r) ==
    \E i \in 1..MaxTimers :
        /\ r.timers[i].kind = "fade" /\ r.timers[i].cb.k = "start" /\ r.timers[i].step = 1
        /\ timers[i] # r.timers[i]

\* Player.__init__, lines 35-38: nothing is loaded; no track is in the cache
\* directory, no download has failed, no command or position change has come
NoQueue ==
    [playlist_length |-> 0, added_tracks_count |-> 0, current_track_index |-> 0,
     loaded |-> <<>>, cache |-> {}, failures |-> 0, starts |-> 0, changes |-> 0]

\* WebSocketClient.__init__, lines 39-43: no token, no socket, not running.
\* ws is "none", "closed" (an object whose socket is not connected) or
\* "connected"; the last fields are history: the outcome of the last attempt,
\* the seconds slept after it, the attempts so far.
NoWebSocket ==
    [running |-> FALSE, token |-> FALSE, ws |-> "none", reconnect_delay |-> 1,
     outcome |-> "none", slept |-> 0, attempts |-> 0]

\* SQSClient.__init__, lines 42-43: not running, no polling thread
NoPolling ==
    [running |-> FALSE, alive |-> FALSE, retry_delay |-> 1,
     outcome |-> "none", slept |-> 0, polls |-> 0]

\* The handler's result r becomes the next state.
Apply(r, op, type) ==
    /\ ~r.full
    /\ now' = r.now
    /\ location_data' = r.location_data
    /\ location_offset' = r.location_offset
    /\ next_prayer' = r.next_prayer
    /\ next_campaign' = r.next_campaign
    /\ prayer_timer' = r.prayer_timer
    /\ campaign_timer' = r.campaign_timer
    /\ current_interruption_type' = r.current_interruption_type
    /\ fade_timer' = r.fade_timer
    /\ completion_callback' = r.completion_callback
    /\ target_volume' = r.target_volume
    /\ main_volume' = r.main_volume
    /\ main_pause' = r.main_pause
    /\ interruption_volume' = r.interruption_volume
    /\ interruption_file' = r.interruption_file
    /\ volume' = r.volume
    /\ timers' = r.timers
    /\ cached' = r.cached
    /\ main_ok' = r.main_ok
    /\ interruption_ok' = r.interruption_ok
    /\ setup_thread' = r.setup_thread
    /\ fade_thread' = r.fade_thread
    /\ last' = Outcome(op, type, r)
    /\ volume_before' = IF FadeOutBegins(r) THEN main_volume
                        ELSE IF r.current_interruption_type = None THEN NoVolume
                        ELSE volume_before
    /\ UNCHANGED <<fade_run, playlist_pos, queue, websocket, sqs>>

\* No fade has been asked for in binary64; mpv has reported no playlist position.
NoFadeRun == [start_volume |-> 0, end_volume |-> 0, current_step |-> -1,
              applied |-> <<>>, callbacks |-> 0]
NoTrack == [index |-> -1, runtime |-> 0, playAt |-> 0, current_time |-> 0,
            location_offset |-> 0, offset |-> 0, seek |-> <<>>]

\* The state after Player() is constructed (main.py): no location, no timer.
Init ==
    /\ now = 0
    /\ location_data = <<>>
    /\ location_offset = 0
    /\ next_prayer = <<>>
    /\ next_campaign = <<>>
    /\ prayer_timer = NoTimer
    /\ campaign_timer = NoTimer
    /\ current_interruption_type = None
    /\ fade_timer = NoTimer
    /\ completion_callback = None
    /\ target_volume = 0
    /\ main_volume = MaxVolume * steps
    /\ main_pause = FALSE
    /\ interruption_volume = MaxVolume
    /\ interruption_file = None
    /\ volume = MaxVolume
    /\ timers = [i \in 1..MaxTimers |-> FreeSlot]
    /\ cached \in CacheChoices
    /\ main_ok = TRUE
    /\ interruption_ok = TRUE
    /\ setup_thread = <<>>
    /\ fade_thread = <<>>
    /\ commands = [n |-> 0, at |-> -1]
    /\ last = Outcome("init", None, S)
    /\ volume_before = NoVolume
    /\ fade_run = NoFadeRun
    /\ playlist_pos = NoTrack
    /\ queue = NoQueue
    /\ websocket = NoWebSocket
    /\ sqs = NoPolling

\* A timer's thread starts its function: the Timer object is finished, and a
\* field that holds it holds a finished timer.
Fired(s, i) ==
    [s EXCEPT !.timers[i] = FreeSlot,
              !.prayer_timer = IF @ = i THEN Done ELSE @,
              !.campaign_timer = IF @ = i THEN Done ELSE @,
              !.fade_timer = IF @ = i THEN Done ELSE @]

Due(i, kind) == timers[i].kind = kind /\ timers[i].due <= now

\* SQSClient._poll_queue processes one message at a time
CanCommand ==
    /\ now \in CommandTimes
    /\ commands.n < MaxCommands /\ commands.at < now
    /\ setup_thread = <<>>

\* The prayer timer gives way to a campaign that is playing.
PrayerTimerDefersToCampaign ==
    \E i \in 1..MaxTimers :
        /\ Due(i, "prayer")
        /\ Apply(IF current_interruption_type = "campaign" THEN Fired(S, i)
                 ELSE PlayInterruption(Fired(S, i), timers[i].intr), "prayer_timer", "prayer")
        /\ UNCHANGED commands

\* the prayer timer: lambda: self._play_interruption(prayer)
PrayerTimerFires ==
    \E i \in 1..MaxTimers :
        /\ Due(i, "prayer")
        /\ Apply(PlayInterruption(Fired(S, i), timers[i].intr), "prayer_timer", "prayer")
        /\ UNCHANGED commands

\* the campaign timer: lambda: self._check_and_play_campaign(campaign)
CampaignTimerFires ==
    \E i \in 1..MaxTimers :
        /\ Due(i, "campaign")
        /\ Apply(CheckAndPlayCampaign(Fired(S, i), timers[i].intr), "campaign_timer", "campaign")
        /\ UNCHANGED commands

\* a fade step: lambda: do_fade(current_step + 1)
FadeStep ==
    \E i \in 1..MaxTimers :
        /\ Due(i, "fade")
        /\ Apply(DoFade(Fired(S, i), timers[i].sv, timers[i].ev, timers[i].cb, timers[i].step),
                 "do_fade", timers[i].cb.type)
        /\ UNCHANGED commands

\* A fade step whose timer thread is preempted after it has set the volume
\* and before it creates the timer of the next step (no lock is held).  The
\* switch is explored at the instants at which a command can still arrive.
FadeStepPreempted ==
    \E i \in 1..MaxTimers :
        /\ Due(i, "fade")
        /\ timers[i].step <= steps
        /\ main_ok
        /\ fade_thread = <<>>
        /\ CanCommand
        /\ Apply([ApplyStep(Fired(S, i), timers[i].sv, timers[i].ev, timers[i].step)
                    EXCEPT !.fade_thread = <<timers[i]>>],
                 "do_fade_preempted", timers[i].cb.type)
        /\ UNCHANGED commands

FadeStepResumes ==
    /\ fade_thread # <<>>
    /\ LET th == fade_thread[1]
       IN  Apply(ScheduleNextStep([S EXCEPT !.fade_thread = <<>>],
                                  th.sv, th.ev, th.cb, th.step),
                 "do_fade", th.cb.type)
    /\ UNCHANGED commands

\* _start_interruption wakes from time.sleep(1) and reads the duration
Settled ==
    \E i \in 1..MaxTimers : \E duration \in Durations :
        /\ Due(i, "sleep")
        /\ Apply(FinishStartInterruption(Fired(S, i), timers[i].cb.type, duration),
                 "start_interruption", timers[i].cb.type)
        /\ UNCHANGED commands

\* the duration timer: Timer(duration, self.on_end_file)
EndFileTimerFires ==
    \E i \in 1..MaxTimers :
        /\ Due(i, "end")
        /\ Apply(OnEndFile(Fired(S, i)), "on_end_file", completion_callback)
        /\ UNCHANGED commands


\* SQS "play" / WebSocket "start-play"
StartCommand ==
    \E session \in Sessions :
        /\ CanCommand
        /\ Apply(StartPlaybackByGuid(S, session.data, session.offset), "start", None)
        /\ commands' = [n |-> commands.n + 1, at |-> now]

\* The same command, with its thread preempted inside setup.
StartCommandPreempted ==
    \E session \in Sessions : \E at \in {"prayer", "campaign"} :
        /\ CanCommand
        /\ PreemptedAt(S, session.data, session.offset, at) # <<>>
        /\ Apply(SuspendSetup(S, session.data, session.offset, at), "start_preempted", None)
        /\ commands' = [n |-> commands.n + 1, at |-> now]

SetupResumes ==
    /\ setup_thread # <<>>
    /\ Apply(ResumeSetup(S), "start", None)
    /\ UNCHANGED commands

\* SQS "stop"
StopCommand ==
    /\ CanCommand
    /\ Apply(Stop(S), "stop", None)
    /\ commands' = [n |-> commands.n + 1, at |-> now]

VolumeUpCommand ==
    /\ CanCommand
    /\ Apply(VolumeUp(S), "volume_up", None)
    /\ commands' = [n |-> commands.n + 1, at |-> now]

VolumeDownCommand ==
    /\ CanCommand
    /\ Apply(VolumeDown(S), "volume_down", None)
    /\ commands' = [n |-> commands.n + 1, at |-> now]

BirthdayCommand ==
    /\ CanCommand
    /\ Apply(TriggerBirthday(S), "trigger_birthday", "birthday")
    /\ commands' = [n |-> commands.n + 1, at |-> now]

\* The sink starts to fail: every access of the player raises from now on.
MainSinkFails ==
    /\ now \in FailTimes
    /\ main_ok
    /\ Apply([S EXCEPT !.main_ok = FALSE], "main_fails", None)
    /\ UNCHANGED commands

InterruptionSinkFails ==
    /\ now \in FailTimes
    /\ interruption_ok
    /\ Apply([S EXCEPT !.interruption_ok = FALSE], "interruption_fails", None)
    /\ UNCHANGED commands

\* Time passes to the next instant at which something happens.
Instants ==
    {timers[i].due : i \in {j \in 1..MaxTimers : timers[j].kind # "free"}}
        \cup {c \in CommandTimes : c > now}

Tick ==
    /\ setup_thread = <<>>
    /\ fade_thread = <<>>
    /\ \A i \in 1..MaxTimers : timers[i].kind # "free" => timers[i].due > now
    /\ Instants # {}
    /\ Min(Instants) <= MaxTime
    /\ Apply([S EXCEPT !.now = Min(Instants)], "tick", None)
    /\ UNCHANGED commands

Next ==
    \/ PrayerTimerFires
    \/ CampaignTimerFires
    \/ FadeStep
    \/ FadeStepPreempted
    \/ FadeStepResumes
    \/ Settled
    \/ EndFileTimerFires
    \/ StartCommand
    \/ StartCommandPreempted
    \/ SetupResumes
    \/ StopCommand
    \/ VolumeUpCommand
    \/ VolumeDownCommand
    \/ BirthdayCommand
    \/ MainSinkFails
    \/ InterruptionSinkFails
    \/ Tick

Spec == Init /\ [][Next]_vars

\* ------------------------------------------- the fade in binary64 arithmetic
\* _fade_volume computes in Python floats (float(start_volume), "/", "*",
\* "+").  A non-negative double below 512 is a sequence of Limbs digits in
\* base 2^LimbBits, least significant first, counting units of 2^-FracBits;
\* every double the fade meets is a multiple of that unit.
Mantissa == 53                     \* significant bits of a binary64
LimbBits == 10
Limbs == 7
FracBits == LimbBits * (Limbs - 1)
Base == 2^LimbBits

\* float(n) for an integer n in 0..Base-1
FromInt(n) == [i \in 1..Limbs |-> IF i = Limbs THEN n ELSE 0]

\* 2^p units
Pow2(p) == [i \in 1..Limbs |-> IF i = p \div LimbBits + 1 THEN 2^(p % LimbBits) ELSE 0]

\* bit i of x, from 1
Bit(x, i) == (x[(i - 1) \div LimbBits + 1] \div 2^((i - 1) % LimbBits)) % 2

\* position of the leading 1, 0 for zero
HighBit(x) ==
    IF \A i \in 1..Limbs : x[i] = 0 THEN 0
    ELSE LET top == CHOOSE i \in 1..Limbs : x[i] # 0 /\ \A j \in (i + 1)..Limbs : x[j] = 0
         IN  (top - 1) * LimbBits
             + (CHOOSE b \in 1..LimbBits : 2^(b - 1) <= x[top] /\ x[top] < 2^b)

\* x with its lowest drop bits cleared
Truncate(x, drop) ==
    [i \in 1..Limbs |->
        IF i * LimbBits <= drop THEN 0
        ELSE IF (i - 1) * LimbBits >= drop THEN x[i]
        ELSE (x[i] \div 2^(drop - (i - 1) * LimbBits)) * 2^(drop - (i - 1) * LimbBits)]

RECURSIVE AddFrom(_, _, _, _, _)
AddFrom(x, y, i, carry, acc) ==
    IF i > Limbs THEN acc
    ELSE AddFrom(x, y, i + 1, (x[i] + y[i] + carry) \div Base,
                 Append(acc, (x[i] + y[i] + carry) % Base))

\* x + y, exact
Add(x, y) == AddFrom(x, y, 1, 0, <<>>)

RECURSIVE SubFrom(_, _, _, _, _)
SubFrom(x, y, i, borrow, acc) ==
    IF i > Limbs THEN acc
    ELSE SubFrom(x, y, i + 1, IF x[i] - y[i] - borrow < 0 THEN 1 ELSE 0,
                 Append(acc, (x[i] - y[i] - borrow + Base) % Base))

\* x - y for x >= y, exact
Sub(x, y) == SubFrom(x, y, 1, 0, <<>>)

RECURSIVE MulFrom(_, _, _, _, _)
MulFrom(x, k, i, carry, acc) ==
    IF i > Limbs THEN acc
    ELSE MulFrom(x, k, i + 1, (x[i] * k + carry) \div Base,
                 Append(acc, (x[i] * k + carry) % Base))

\* x * k for a small integer k, exact
Mul(x, k) == MulFrom(x, k, 1, 0, <<>>)

RECURSIVE DivFrom(_, _, _, _, _)
DivFrom(x, n, i, rem, acc) ==
    IF i = 0 THEN [q |-> acc, rem |-> rem]
    ELSE DivFrom(x, n, i - 1, (Base * rem + x[i]) % n,
                 <<(Base * rem + x[i]) \div n>> \o acc)

\* x / n for a small integer n: quotient and remainder
Div(x, n) == DivFrom(x, n, Limbs, 0, <<>>)

Less(x, y) ==
    \E i \in 1..Limbs : x[i] < y[i] /\ \A j \in (i + 1)..Limbs : x[j] = y[j]

\* round to nearest, ties to even: the exact value is x, plus something below
\* one unit when sticky
Round(x, sticky) ==
    LET drop == HighBit(x) - Mantissa
    IN  IF drop <= 0 THEN x
        ELSE LET low == sticky \/ \E i \in 1..(drop - 1) : Bit(x, i) = 1
                 up == Bit(x, drop) = 1 /\ (low \/ Bit(x, drop + 1) = 1)
             IN  IF up THEN Add(Truncate(x, drop), Pow2(drop)) ELSE Truncate(x, drop)

\* |volume_step| = |end_volume - start_volume| / steps, line 116; its sign is that of
\* end_volume - start_volume
volume_step(start_volume, end_volume) ==
    LET d == Div(FromInt(IF end_volume >= start_volume THEN end_volume - start_volume
                         ELSE start_volume - end_volume), steps)
    IN  Round(d.q, d.rem # 0)

\* lines 135-136: start_volume + volume_step * current_step, clamped
current_volume(start_volume, end_volume, current_step) ==
    LET product == Round(Mul(volume_step(start_volume, end_volume), current_step), FALSE)
        start == FromInt(start_volume)
    IN  IF end_volume >= start_volume
        THEN LET sum == Round(Add(start, product), FALSE)
             IN  IF Less(FromInt(MaxVolume), sum) THEN FromInt(MaxVolume) ELSE sum
        ELSE IF Less(product, start) THEN Round(Sub(start, product), FALSE)
        ELSE FromInt(0)

\* The volumes a fade is asked to run between.
FadeVolumes == {0, 20, 31, 38, 50, 62, 80, 100}

\* do_fade(current_step), lines 118-149, in binary64, the sink working
DoFadeDouble(f) ==
    IF f.current_step > steps
    THEN [f EXCEPT !.callbacks = @ + 1, !.current_step = -1]
    ELSE [f EXCEPT !.applied = Append(@, current_volume(f.start_volume, f.end_volume,
                                                         f.current_step)),
                   !.current_step = @ + 1]

\* _fade_volume(start_volume, end_volume, 5000, callback) is called: it runs
\* do_fade(0), which leaves the timer of step 1.
FadeVolumeCalled ==
    /\ fade_run = NoFadeRun
    /\ \E start_volume \in FadeVolumes, end_volume \in FadeVolumes :
          fade_run' = DoFadeDouble([NoFadeRun EXCEPT
                                      !.start_volume = Clamp(start_volume, 0, MaxVolume),
                                      !.end_volume = Clamp(end_volume, 0, MaxVolume),
                                      !.current_step = 0])
    /\ UNCHANGED <<program, playlist_pos, queue, websocket, sqs>>

\* The timer of the next step fires.
DoFadeRuns ==
    /\ fade_run.current_step > 0
    /\ fade_run' = DoFadeDouble(fade_run)
    /\ UNCHANGED <<program, playlist_pos, queue, websocket, sqs>>

FadeNext == FadeVolumeCalled \/ DoFadeRuns

FadeSpec == Init /\ [][FadeNext]_vars

\* ------------------------------------------- Player.play_track_at_offset
MaxClock == 610       \* the wall clock's horizon at a playlist-pos change, in seconds

Runtimes == {0, 40, 600}       \* metadata.runtime
PlayAts == {0, 20}             \* track.playAt
LocationOffsets == {-3, 0, 3}  \* Player.location_offset
Indexes == {0, 1}              \* playlist-pos

\* lines 166-168: the local location_offset is Player.location_offset * 2 * -1;
\* the times are whole seconds, which int() leaves as they are
Offset(current_time, play_at, self_location_offset) ==
    LET local_offset == self_location_offset * 2 * (-1)
    IN  current_time - (play_at - (local_offset * 2))

\* The comparison lets an offset through that leaves exactly 30 seconds.
SeekTargetInclusive(runtime, offset) ==
    IF runtime - offset >= 30 /\ offset > 5 THEN offset ELSE Max2(runtime - 60, 0)

\* The fallback is runtime - 60 without the floor at 0.
SeekTargetNoFloor(runtime, offset) ==
    IF runtime - offset > 30 /\ offset > 5 THEN offset ELSE runtime - 60

\* lines 172-185: the position main_player.seek is called with
SeekTarget(runtime, offset) ==
    IF runtime - offset > 30 /\ offset > 5 THEN offset ELSE Max2(runtime - 60, 0)

\* play_track_at_offset(track, index) at current_time
PlayTrackAtOffset(runtime, play_at, index, current_time, self_location_offset) ==
    LET offset == Offset(current_time, play_at, self_location_offset)
        seeks == index = 0 /\ runtime > 0
    IN  [index |-> index, runtime |-> runtime, playAt |-> play_at,
         current_time |-> current_time, location_offset |-> self_location_offset,
         offset |-> IF seeks THEN offset ELSE 0,
         seek |-> IF seeks THEN <<SeekTarget(runtime, offset)>> ELSE <<>>]

\* on_playlist_pos_changed: mpv reports the first playlist position after the
\* program started; nothing is done while an interruption is playing.
PlaylistPosChanged ==
    /\ playlist_pos = NoTrack
    /\ current_interruption_type = None
    /\ \E runtime \in Runtimes, play_at \in PlayAts, index \in Indexes,
          current_time \in 0..MaxClock, self_location_offset \in LocationOffsets :
          playlist_pos' = PlayTrackAtOffset(runtime, play_at, index, current_time,
                                            self_location_offset)
    /\ UNCHANGED <<program, fade_run, queue, websocket, sqs>>

SeekNext == PlaylistPosChanged

SeekSpec == Init /\ [][SeekNext]_vars

\* ------------------------------------------------ Player: the playlist queue
MaxFailures == 2       \* downloads that fail, over a run
MaxStarts == 2         \* start commands, over a run
MaxChanges == 3        \* playlist-pos changes, over a run

SetupTracks == 10      \* "for track in self.playlist[:10]"
PreloadCount == 5      \* "self.preload_next_tracks(5)"
PlaylistLengths == {0, 3, 12}   \* len(playlistData["events"])

\* add_track_to_queue for playlist index i; downloaded is whether
\* download_track returned a path.  loadfile with "replace" empties mpv's
\* playlist and loads the file, "append" adds it at the end.
AddTrackToQueue(q, i, downloaded) ==
    IF downloaded
    THEN [q EXCEPT !.loaded = IF q.added_tracks_count = 0 THEN <<i>> ELSE Append(@, i),
                   !.added_tracks_count = @ + 1,
                   !.cache = @ \cup {i}]
    ELSE [q EXCEPT !.failures = @ + 1]

\* The two loops: the indexes from i up to end, while they are in the
\* playlist; the downloads of the indexes in fails fail.
RECURSIVE LoadRange(_, _, _, _)
LoadRange(q, i, end, fails) ==
    IF i >= end \/ i >= q.playlist_length THEN q
    ELSE LoadRange(AddTrackToQueue(q, i, i \notin fails), i + 1, end, fails)

\* The downloads that can fail in a loop over from..end-1: of files that are
\* not in the cache directory, within the number of failures of a run.
CanFail(q, from, end) ==
    {fails \in SUBSET {i \in from..(end - 1) : i < q.playlist_length /\ i \notin q.cache} :
        Cardinality(fails) <= MaxFailures - q.failures}

\* preload_next_tracks(count): start_index is read once, before the loop
PreloadNextTracks(q, count, fails) ==
    LoadRange(q, q.added_tracks_count, q.added_tracks_count + count, fails)

\* start_playback_by_guid, lines 307-330: the counters are reset, the playlist
\* is fetched, and _setup_location loads the first ten tracks
StartPlayback ==
    /\ queue.starts < MaxStarts
    /\ \E length \in PlaylistLengths :
          LET q0 == [queue EXCEPT !.playlist_length = 0, !.current_track_index = 0,
                                  !.added_tracks_count = 0, !.starts = @ + 1]
              q1 == [q0 EXCEPT !.playlist_length = length]
          IN  IF length = 0 THEN queue' = q0
              ELSE \E fails \in CanFail(q1, 0, SetupTracks) :
                      queue' = LoadRange(q1, 0, SetupTracks, fails)
    /\ UNCHANGED <<program, fade_run, playlist_pos, websocket, sqs>>

\* on_playlist_pos_changed(name, value): mpv reports a position of its
\* playlist, or -1
PositionChanged ==
    /\ queue.changes < MaxChanges
    /\ \E value \in (-1)..(Len(queue.loaded) - 1) :
          LET q0 == [queue EXCEPT !.changes = @ + 1]
              q1 == [q0 EXCEPT !.current_track_index = value]
          IN  IF value = -1 THEN queue' = q0
              ELSE IF value < q1.playlist_length
              THEN \E fails \in CanFail(q1, q1.added_tracks_count,
                                        q1.added_tracks_count + PreloadCount) :
                      queue' = PreloadNextTracks(q1, PreloadCount, fails)
              ELSE queue' = q1
    /\ UNCHANGED <<program, fade_run, playlist_pos, websocket, sqs>>

\* Player.stop, lines 224 and 239-241: mpv's "stop" clears its playlist
StopPlayback ==
    /\ queue.loaded # <<>>
    /\ queue' = [queue EXCEPT !.loaded = <<>>, !.current_track_index = 0,
                              !.added_tracks_count = 0]
    /\ UNCHANGED <<program, fade_run, playlist_pos, websocket, sqs>>

QueueNext == StartPlayback \/ PositionChanged \/ StopPlayback

QueueSpec == Init /\ [][QueueNext]_vars

\* --------------------------------- WebSocketClient._maintain_connection
MaxAttempts == 8            \* connection attempts, over a run

max_reconnect_delay == 60   \* max_reconnect_delay = 60

\* How a call of _connect can end: no token (returns False at once), an
\* exception before its try (_get_session_metadata), an exception inside its
\* try before self.ws is assigned (returns False), no connection within the
\* timeout (returns False), a connection (returns True).
ConnectOutcomes(w) ==
    IF ~w.token THEN {"no_token"}
    ELSE {"raises", "fails_in_try", "timeout", "established"}

\* The except branch of the loop: sleep, then double up to the cap
Backoff(w) ==
    [w EXCEPT !.slept = w.reconnect_delay,
              !.reconnect_delay = Min2(w.reconnect_delay * 2, max_reconnect_delay)]

\* One pass of "while self.running" up to the wait for the connection to
\* close.  _connect's result is not looked at: the delay is reset whenever
\* _connect returns.  "self.ws.sock" raises AttributeError while self.ws is
\* None.
MaintainConnectionPass(w, outcome) ==
    LET w0 == [w EXCEPT !.outcome = outcome, !.slept = 0, !.attempts = @ + 1]
    IN  IF outcome = "raises" THEN Backoff(w0)
        ELSE LET w1 == [w0 EXCEPT !.ws = IF outcome = "established" THEN "connected"
                                        ELSE IF outcome = "timeout" THEN "closed"
                                        ELSE @,
                                  !.reconnect_delay = 1]
             IN  IF w1.ws = "none" THEN Backoff(w1) ELSE w1

\* WebSocketClient.start(token)
WebSocketStart ==
    /\ ~websocket.running
    /\ websocket.attempts < MaxAttempts
    /\ \E token \in BOOLEAN :
          websocket' = [websocket EXCEPT !.running = TRUE, !.token = token,
                                        !.reconnect_delay = 1, !.outcome = "none",
                                        !.slept = 0]
    /\ UNCHANGED <<program, fade_run, playlist_pos, queue, sqs>>

MaintainConnection ==
    /\ websocket.running
    /\ websocket.ws # "connected"
    /\ websocket.attempts < MaxAttempts
    /\ \E outcome \in ConnectOutcomes(websocket) :
          websocket' = MaintainConnectionPass(websocket, outcome)
    /\ UNCHANGED <<program, fade_run, playlist_pos, queue, sqs>>

\* The socket drops: the inner wait ends and the loop goes round.
ConnectionCloses ==
    /\ websocket.ws = "connected"
    /\ websocket' = [websocket EXCEPT !.ws = "closed"]
    /\ UNCHANGED <<program, fade_run, playlist_pos, queue, sqs>>

\* WebSocketClient.stop
WebSocketStop ==
    /\ websocket.running
    /\ websocket' = [websocket EXCEPT !.running = FALSE,
                                      !.ws = IF @ = "none" THEN "none" ELSE "closed"]
    /\ UNCHANGED <<program, fade_run, playlist_pos, queue, sqs>>

WebSocketNext ==
    WebSocketStart \/ MaintainConnection \/ ConnectionCloses \/ WebSocketStop

WebSocketSpec == Init /\ [][WebSocketNext]_vars

\* ------------------------------------------------- SQSClient._poll_queue
MaxPolls == 8            \* receive_message calls, over a run

max_retry_delay == 20    \* max_retry_delay = 20

\* How a pass of the loop can end: no message, a message for this user, a
\* message for another user (all three reach the reset), receive_message
\* raises ClientError, or an exception that is not a ClientError leaves
\* _poll_queue and ends the thread (in receive_message, or in the handling of
\* a received message).
PollOutcomes ==
    {"empty", "message", "foreign", "client_error", "receive_raises", "handling_raises"}

\* The delay goes on doubling past max_retry_delay.
RetryDelayUncapped(retry_delay) == retry_delay * 2

\* "retry_delay = min(retry_delay * 2, max_retry_delay)"
RetryDelayAfterError(retry_delay) == Min2(retry_delay * 2, max_retry_delay)

\* One pass of "while self.running"
PollQueuePass(q, outcome) ==
    LET q0 == [q EXCEPT !.outcome = outcome, !.slept = 0, !.polls = @ + 1]
    IN  IF outcome \in {"empty", "message", "foreign"}
        THEN [q0 EXCEPT !.retry_delay = 1]
        ELSE IF outcome = "client_error"
        THEN [q0 EXCEPT !.slept = q.retry_delay,
                        !.retry_delay = RetryDelayAfterError(q.retry_delay)]
        ELSE [q0 EXCEPT !.alive = FALSE]

\* SQSClient.start: nothing is done while the polling thread is alive
PollingStart ==
    /\ ~sqs.alive
    /\ sqs.polls < MaxPolls
    /\ sqs' = [sqs EXCEPT !.running = TRUE, !.alive = TRUE, !.retry_delay = 1,
                          !.outcome = "none", !.slept = 0]
    /\ UNCHANGED <<program, fade_run, playlist_pos, queue, websocket>>

PollQueue ==
    /\ sqs.alive
    /\ sqs.polls < MaxPolls
    /\ \E outcome \in PollOutcomes :
          sqs' = IF sqs.running THEN PollQueuePass(sqs, outcome)
                 ELSE [sqs EXCEPT !.alive = FALSE]
    /\ UNCHANGED <<program, fade_run, playlist_pos, queue, websocket>>

\* SQSClient.stop: the loop ends at its next test of self.running
PollingStop ==
    /\ sqs.running
    /\ sqs' = [sqs EXCEPT !.running = FALSE]
    /\ UNCHANGED <<program, fade_run, playlist_pos, queue, websocket>>

PollingNext == PollingStart \/ PollQueue \/ PollingStop

PollingSpec == Init /\ [][PollingNext]_vars

\* ------------------------------------------------------ Player: the volume
\* The volume operations in any number and order, with no clock: location
\* setup (with the playback it starts), volume up, volume down, and
\* set_volume with an argument inside or outside 0..100.
VolumeArguments == {-20, 0, 55, 100, 150}

LocationSetUp ==
    /\ \E session \in Sessions :
          Apply(StartPlaybackByGuid(S, session.data, session.offset), "start", None)
    /\ UNCHANGED commands

VolumeUpPressed ==
    /\ Apply(VolumeUp(S), "volume_up", None)
    /\ UNCHANGED commands

VolumeDownPressed ==
    /\ Apply(VolumeDown(S), "volume_down", None)
    /\ UNCHANGED commands

SetVolumeCalled ==
    /\ \E v \in VolumeArguments : Apply(SetVolume(S, v), "set_volume", None)
    /\ UNCHANGED commands

VolumeNext ==
    \/ LocationSetUp
    \/ VolumeUpPressed
    \/ VolumeDownPressed
    \/ SetVolumeCalled
    \/ MainSinkFails

VolumeSpec == Init /\ [][VolumeNext]_vars

\* ================================================================= claims
Playing == current_interruption_type # None

\* A fade-out for a new interruption begins in this step: a step timer of a
\* fade to 0 that waits for step 1 exists afterwards and not before.
FadeOutStarts ==
    \E i \in 1..MaxTimers :
        /\ timers'[i].kind = "fade" /\ timers'[i].cb.k = "start" /\ timers'[i].step = 1
        /\ timers[i] # timers'[i]

\* C1: in every reachable state the main channel is audible (main volume > 0)
\* if and only if the interruption state is idle.
C1_MainAudibleIffIdle == (main_volume > 0) <=> (current_interruption_type = None)

\* C2: interruptions never nest: while the state is playing-X no fade-out for a
\* new interruption starts and the interrupt channel is not loaded for another
\* type, and the state moves to X again or to idle, never to playing-Y.
C2_NoNesting ==
    [][Playing =>
          /\ current_interruption_type' \in {current_interruption_type, None}
          /\ ~FadeOutStarts
          /\ interruption_file' \in {interruption_file, current_interruption_type, None}]_vars

\* C3: a campaign timer that fires while the state is playing-prayer leaves the
\* state, the fade and both channels as they are, and the campaign entry
\* afterwards is not the occurrence whose timer fired (it is a later one, or
\* none).
C3_DefersToFollowing ==
    [][(last'.op = "campaign_timer" /\ current_interruption_type = "prayer") =>
          /\ current_interruption_type' = "prayer"
          /\ UNCHANGED <<fade_timer, main_volume, interruption_file, interruption_volume>>
          /\ \A i \in 1..MaxTimers :
                Due(i, "campaign") =>
                    \/ next_campaign' = <<>>
                    \/ next_campaign'[1].start > timers[i].intr.start]_vars

\* The fields of S that are the program's state.
ProgramFields ==
    {"now", "location_data", "location_offset", "next_prayer", "next_campaign",
     "prayer_timer", "campaign_timer", "current_interruption_type", "fade_timer",
     "completion_callback", "target_volume", "main_volume", "main_pause",
     "interruption_volume", "interruption_file", "volume", "timers", "cached",
     "main_ok", "interruption_ok", "setup_thread", "fade_thread"}
Program(r) == [f \in ProgramFields |-> r[f]]

\* The candidates of a type in the location data, with their shifted start.
Candidates(type) ==
    IF location_data = <<>> THEN {}
    ELSE IF type = "prayer"
    THEN {Interruption("prayer", p + location_offset, FALSE) :
              p \in location_data[1].prayers \ {BadStamp}}
    ELSE {Interruption("campaign", c.start + location_offset, c.exact) :
              c \in {a \in location_data[1].ads : a.start # BadStamp}}

\* The candidate with the earliest shifted start strictly after now, if any.
EarliestFuture(type) ==
    LET F == {c \in Candidates(type) : c.start > now}
    IN  IF F = {} THEN <<>> ELSE <<CHOOSE c \in F : \A o \in F : c.start <= o.start>>

WellFormed ==
    /\ location_data # <<>>
    /\ BadStamp \notin location_data[1].prayers
    /\ \A a \in location_data[1].ads : a.start # BadStamp

\* C4: while the state is playing-prayer a play request for a campaign or a
\* birthday, and trigger_birthday, change nothing: state, schedule entries,
\* timers, fade and channels stay as they are and completion handling is not
\* called.
OtherRequests == {Interruption("birthday", 0, FALSE)} \cup Candidates("campaign")
C4_PrayerRejects ==
    current_interruption_type = "prayer" =>
        /\ \A r \in OtherRequests : PlayInterruption(S, r) = S
        /\ TriggerBirthday(S) = [S EXCEPT !.ret = FALSE]
C4_Witness ==
    /\ last.op = "trigger_birthday" /\ ~last.ret /\ last.calls = 0
    /\ current_interruption_type = "prayer"
    /\ location_data # <<>> /\ location_data[1].isBdayEnabled
    /\ "birthday" \in cached
    /\ interruption_file = "prayer"

\* C5: a campaign check at time t in state idle, with the pending prayer's
\* start p such that t < p < t + 30 s, skips the campaign: the state stays
\* idle, no fade starts, the interrupt channel is not loaded and no campaign
\* timer is installed.
C5_PrePrayerGuard ==
    [][(/\ last'.op = "campaign_timer"
        /\ current_interruption_type = None
        /\ next_prayer # <<>>
        /\ now < next_prayer[1].start
        /\ next_prayer[1].start < now + 30 * Sec) =>
          /\ current_interruption_type' = None
          /\ UNCHANGED <<fade_timer, main_volume, interruption_file, interruption_volume,
                         next_prayer, next_campaign, prayer_timer>>
          /\ \A i \in 1..MaxTimers :
                \/ timers'[i] = timers[i]
                \/ Due(i, "campaign") /\ timers'[i] = FreeSlot]_vars
C5_Witness ==
    /\ last.op = "campaign_timer"
    /\ current_interruption_type = None
    /\ next_prayer # <<>> /\ now < next_prayer[1].start /\ next_prayer[1].start < now + 30 * Sec
    /\ next_campaign # <<>> /\ campaign_timer = Done
    /\ "campaign" \in cached
    /\ fade_timer = NoTimer

\* C6: after a setup with new location data the pending entries are those of
\* the new data (none for a type without a future candidate), and every live
\* prayer or campaign timer is the one of the pending entry.
C6_SetupReplaces ==
    (last.op = "start" /\ WellFormed) =>
        /\ next_prayer = EarliestFuture("prayer")
        /\ next_campaign = EarliestFuture("campaign")
        /\ \A i \in 1..MaxTimers :
              /\ timers[i].kind = "prayer" => next_prayer = <<timers[i].intr>>
              /\ timers[i].kind = "campaign" => next_campaign = <<timers[i].intr>>

\* C7: an interruption that entered playing-* returns to idle: when no timer
\* and no sleeping handler is left (nothing more will run), and the sink has
\* not failed, the state is idle.
Quiescent ==
    /\ \A i \in 1..MaxTimers : timers[i].kind = "free"
    /\ setup_thread = <<>> /\ fade_thread = <<>>
C7_ReturnsToIdle ==
    (Quiescent /\ main_ok /\ interruption_ok) => current_interruption_type = None

\* C8: a handler of play_interruption's chain in which an exception occurred
\* has called the completion callback exactly once, and the state is idle
\* when it has finished.
PlayChain ==
    {"prayer_timer", "campaign_timer", "trigger_birthday", "do_fade",
     "start_interruption", "on_end_file"}
C8_CallbackOnce ==
    (last.op \in PlayChain /\ last.exc) =>
        (last.calls = 1 /\ current_interruption_type = None)

\* C9: when completion handling has returned, on its normal path or on its
\* except path, the state is idle and main_player.pause is false.
C9_CompletionResumes ==
    last.calls > 0 => (last.idle /\ ~last.paused)

\* C10: completion handling called twice in a row for campaign or prayer
\* leaves the state of one call: idle, the entry of the type the earliest
\* future candidate with exactly one live timer (no entry and no timer when
\* none qualifies).
C10_Idempotent ==
    \A type \in {"campaign", "prayer"} :
        LET r1 == HandleInterruptionComplete(S, type)
            r2 == HandleInterruptionComplete(r1, type)
            entry == IF type = "prayer" THEN r2.next_prayer ELSE r2.next_campaign
            ref == IF type = "prayer" THEN r2.prayer_timer ELSE r2.campaign_timer
        IN  (~r1.full /\ ~r2.full) =>
               /\ Program(r2) = Program(r1)
               /\ r2.current_interruption_type = None
               /\ entry = EarliestFuture(type)
               /\ IF entry = <<>> THEN LiveIn(r2, type) = {}
                  ELSE LiveIn(r2, type) = {ref} /\ r2.timers[ref].intr = entry[1]

\* Some handler step calls _play_interruption for a type whose file is not in
\* the cache: the prayer timer; the campaign timer whose check passes; and
\* trigger_birthday past its own three guards.
CallsPlayUnresolved ==
    \/ last'.op = "prayer_timer" /\ "prayer" \notin cached
    \/ /\ last'.op = "campaign_timer" /\ "campaign" \notin cached
       /\ ~PrayerActive(S) /\ ~PrayerAboutToStart(S)
    \/ /\ last'.op = "trigger_birthday" /\ "birthday" \notin cached
       /\ location_data # <<>> /\ location_data[1].isBdayEnabled /\ ~PrayerActive(S)

\* C11: when the content of a due interruption does not resolve, no fade is
\* started and the interrupt channel is not loaded, completion handling runs
\* once, at once, and the state is idle when _play_interruption returns.
C11_UnresolvedCompletes ==
    [][CallsPlayUnresolved =>
          /\ current_interruption_type' = None
          /\ last'.calls = 1
          /\ ~FadeOutStarts
          /\ UNCHANGED <<fade_timer, main_volume, interruption_file,
                         interruption_volume, target_volume>>
          /\ \A i \in 1..MaxTimers : timers'[i].kind \notin {"fade", "sleep", "end"}
                                         \/ timers'[i] = timers[i]]_vars
C11_Witness ==
    /\ last.op = "prayer_timer" /\ "prayer" \notin cached
    /\ last.calls = 1 /\ current_interruption_type = None
    /\ prayer_timer = NoTimer /\ next_prayer = <<>>
    /\ interruption_file = None /\ main_volume > 0

\* C12: trigger_birthday returns success exactly when the location has
\* birthdays enabled, the state is not playing-prayer and the birthday content
\* resolves; in every other case it returns failure and changes nothing.
BirthdayOk ==
    /\ location_data # <<>> /\ location_data[1].isBdayEnabled
    /\ current_interruption_type # "prayer"
    /\ "birthday" \in cached
C12_BirthdayResult ==
    LET r == TriggerBirthday(S)
    IN  /\ r.ret <=> BirthdayOk
        /\ ~BirthdayOk => Program(r) = Program(S)

\* C13: in every reachable state at most one prayer timer and at most one
\* campaign timer are live.
C13_OneTimerPerType ==
    /\ Cardinality(LiveIn(S, "prayer")) <= 1
    /\ Cardinality(LiveIn(S, "campaign")) <= 1

\* C14: at most one fade is in flight: at most one step timer of a fade is
\* live, so no step of an earlier fade runs once a new fade has started.
C14_OneFade == Cardinality(LiveIn(S, "fade")) <= 1

\* A timer field that holds a slot holds a live timer of its own kind.
FieldsRefer ==
    /\ prayer_timer > 0 => timers[prayer_timer].kind = "prayer"
    /\ campaign_timer > 0 => timers[campaign_timer].kind = "campaign"
    /\ fade_timer > 0 => timers[fade_timer].kind \in {"fade", "end"}

\* Properties of the volumes the fade has applied so far, and of its callback.
FadeInRange ==
    \A i \in 1..Len(fade_run.applied) : ~Less(FromInt(MaxVolume), fade_run.applied[i])

FadeMonotone ==
    \A i \in 1..(Len(fade_run.applied) - 1) :
        /\ fade_run.end_volume <= fade_run.start_volume
              => ~Less(fade_run.applied[i], fade_run.applied[i + 1])
        /\ fade_run.end_volume >= fade_run.start_volume
              => ~Less(fade_run.applied[i + 1], fade_run.applied[i])

FadeCallbackOnce ==
    /\ fade_run.callbacks = (IF fade_run # NoFadeRun /\ fade_run.current_step = -1 THEN 1 ELSE 0)
    /\ fade_run.callbacks > 0 => Len(fade_run.applied) = steps + 1

FadeEndsExactly ==
    Len(fade_run.applied) = steps + 1
        => fade_run.applied[steps + 1] = FromInt(fade_run.end_volume)

FirstTrackSeeks == playlist_pos.index = 0 /\ playlist_pos.runtime > 0

\* C16: for the first track (index 0) with runtime R > 0 and computed offset
\* o, main_player.seek is called with o when R - o > 30 and o > 5, and with
\* max(R - 60, 0) otherwise; for any other index no seek is issued.
C16_SeekTarget ==
    /\ FirstTrackSeeks =>
          playlist_pos.seek =
              <<IF playlist_pos.runtime - playlist_pos.offset > 30 /\ playlist_pos.offset > 5
                THEN playlist_pos.offset
                ELSE IF playlist_pos.runtime - 60 > 0 THEN playlist_pos.runtime - 60 ELSE 0>>
    /\ playlist_pos.index > 0 => playlist_pos.seek = <<>>

\* The spec's example: runtime 600 and offset 400 seek to 400.
C16_Witness ==
    /\ FirstTrackSeeks
    /\ playlist_pos.runtime = 600 /\ playlist_pos.offset = 400
    /\ playlist_pos.seek = <<400>>

\* C20: the offset computed for the first track equals
\* currentTime - (playAt - 2 * locationOffset), for integer currentTime,
\* playAt and locationOffset, the offset positive, zero or negative.
C20_OffsetFormula ==
    FirstTrackSeeks =>
        playlist_pos.offset =
            playlist_pos.current_time
                - (playlist_pos.playAt - 2 * playlist_pos.location_offset)

\* The interruption under way completes normally in this step: the last step
\* of the fade-in calls completion handling, and nothing took an except path.
CompletesNormally ==
    /\ current_interruption_type # None /\ current_interruption_type' = None
    /\ last'.op = "do_fade" /\ last'.calls = 1
    /\ ~last'.raised /\ ~last'.exc /\ ~last'.lost

\* C19: the fade-out of an interruption starts from the main channel's current
\* volume (its first step leaves the volume as it was), and when an
\* interruption completes normally the main channel's volume is the volume it
\* had immediately before the interruption started.
C19_VolumeRestored ==
    [][/\ FadeOutStarts => main_volume' = main_volume
       /\ CompletesNormally => main_volume' = volume_before]_vars

\* The entry of a type is the earliest strictly-future candidate and its
\* timer is the only live timer of the type; without such a candidate there
\* is no entry and no live timer.
ScheduledEarliest(type) ==
    LET entry == IF type = "prayer" THEN next_prayer ELSE next_campaign
        ref == IF type = "prayer" THEN prayer_timer ELSE campaign_timer
    IN  /\ entry = EarliestFuture(type)
        /\ IF entry = <<>> THEN LiveIn(S, type) = {}
           ELSE LiveIn(S, type) = {ref} /\ timers[ref].intr = entry[1]

\* C17: for each interruption type, the entry scheduled by setup, and by the
\* recomputation at completion, is the candidate with the smallest shifted
\* start among those whose shifted start is strictly after now (never one at
\* or before now); when no candidate qualifies there is no entry and no live
\* timer of the type.  Stated of the step in which setup runs whole, and of a
\* step that calls completion handling.
C17_EarliestStrictlyFuture ==
    [][WellFormed' =>
        /\ (last'.op = "start" /\ setup_thread = <<>>)
              => (ScheduledEarliest("prayer") /\ ScheduledEarliest("campaign"))'
        /\ (last'.calls > 0 /\ ~last'.raised /\ last'.type \in {"prayer", "campaign"})
              => ScheduledEarliest(last.type)']_vars

\* The location data has a candidate whose start stamp is missing or does not
\* parse.
HasBadStamp ==
    /\ location_data # <<>>
    /\ \/ BadStamp \in location_data[1].prayers
       \/ \E a \in location_data[1].ads : a.start = BadStamp

\* The type whose candidates are all sound is scheduled by the first setup as
\* if the other list were sound too.
OtherTypeScheduled ==
    [][(HasBadStamp' /\ last'.op = "start" /\ setup_thread = <<>> /\ location_data = <<>>)
          => ScheduledEarliest("campaign")']_vars

\* C18: when one candidate has a missing or unparseable start stamp, setup
\* skips only that candidate: the earliest valid future candidate of the same
\* type is scheduled, and the other type is scheduled as usual.  Stated of the
\* first setup, before which nothing is scheduled.
C18_BadStampSkipped ==
    [][(HasBadStamp' /\ last'.op = "start" /\ setup_thread = <<>> /\ location_data = <<>>)
          => (ScheduledEarliest("prayer") /\ ScheduledEarliest("campaign"))']_vars

\* A campaign timer is created in this step.
NewCampaignTimer(i) == timers'[i].kind = "campaign" /\ timers'[i] # timers[i]

\* C21: the delay of a campaign timer is max(start - now - 5 s, 2 s) when the
\* campaign's exact-time flag is false, hence never below 2 s, and exactly
\* start - now - 5 s when the flag is true; and the timer, when it fires, runs
\* the preemption check on its campaign, not playback directly.
C21_CampaignDelay ==
    [][/\ \A i \in 1..MaxTimers :
             NewCampaignTimer(i) =>
                LET raw == timers'[i].intr.start - now' - 5 * Sec
                    delay == timers'[i].due - now'
                IN  /\ timers'[i].intr.exact => delay = raw
                    /\ ~timers'[i].intr.exact =>
                          /\ delay = (IF raw >= 2 * Sec THEN raw ELSE 2 * Sec)
                          /\ delay >= 2 * Sec
       /\ last'.op = "campaign_timer" =>
             \E i \in 1..MaxTimers :
                 /\ Due(i, "campaign")
                 /\ Program(S)' = Program(CheckAndPlayCampaign(Fired(S, i), timers[i].intr))]_vars

\* An exact-time campaign was scheduled with its raw delay, here a negative one.
C21_Witness ==
    /\ last.op = "start"
    /\ \E i \in 1..MaxTimers :
          /\ timers[i].kind = "campaign" /\ timers[i].intr.exact
          /\ timers[i].due = timers[i].intr.start - 5 * Sec
          /\ timers[i].due < now

\* C22: the prayer timer is set to fire at the shifted start minus 5 s, and
\* when it fires the prayer is played with no look at the campaign schedule
\* and no overlap check: whatever campaign is pending, due or playing, the
\* step is _play_interruption on the prayer, and with the state not
\* playing-prayer, the content resolved and the sink working the prayer's
\* fade-out starts at once and the state becomes playing-prayer.
C22_PrayerAlwaysWins ==
    [][/\ \A i \in 1..MaxTimers :
             (timers'[i].kind = "prayer" /\ timers'[i] # timers[i])
                => timers'[i].due = timers'[i].intr.start - 5 * Sec
       /\ last'.op = "prayer_timer" =>
             /\ \E i \in 1..MaxTimers :
                   /\ Due(i, "prayer")
                   /\ Program(S)' = Program(PlayInterruption(Fired(S, i), timers[i].intr))
             /\ (current_interruption_type # "prayer" /\ "prayer" \in cached /\ main_ok)
                   => (FadeOutStarts /\ current_interruption_type' = "prayer")]_vars

\* The prayer's fade-out has started while a campaign is pending on its timer.
C22_Witness ==
    /\ last.op = "prayer_timer"
    /\ current_interruption_type = "prayer"
    /\ next_campaign # <<>> /\ LiveIn(S, "campaign") # {}
    /\ \E i \in 1..MaxTimers :
          timers[i].kind = "fade" /\ timers[i].cb = Callback("start", "prayer")

\* C23: when the state is playing-prayer and the request is itself a prayer
\* (the timer of a prayer entry fires during the prayer), the prayer guard lets
\* it through: it goes on to content resolution, so that an unresolved file
\* leads to completion handling and a resolved one to the fade-out.
C23_PrayerDuringPrayer ==
    [][(last'.op = "prayer_timer" /\ current_interruption_type = "prayer") =>
          IF "prayer" \in cached THEN main_ok => FadeOutStarts
          ELSE last'.calls > 0]_vars

\* C24: the interrupt channel is loaded only after the main channel's fade-out
\* has applied its final step (the step that loads is the call of do_fade that
\* follows step 30 of a fade-out, the main volume being 0 by then), and right
\* after the interrupt channel is started the main channel's volume is 0,
\* whether or not the fade-out succeeded.
C24_LoadAfterFadeOut ==
    [][last'.loaded =>
          /\ last'.op = "do_fade"
          /\ \E i \in 1..MaxTimers :
                /\ Due(i, "fade") /\ timers[i].cb.k = "start"
                /\ timers[i].step > steps /\ timers[i].ev = 0
          /\ main_volume = 0
          /\ main_volume' = 0]_vars

\* Timer i belongs to an interruption under way: a step of its fade-out, its
\* settle delay, its clip's duration timer, or a step of its fade-in.
OfInterruption(t) ==
    \/ t.kind = "fade" /\ t.cb.k \in {"start", "complete"}
    \/ t.kind = "sleep"
    \/ t.kind = "end"

\* Timer i carries the completion of a clip whose duration was available: the
\* duration timer, or a step of the fade-in that follows it.
CarriesCompletion(t) ==
    \/ t.kind = "end"
    \/ t.kind = "fade" /\ t.cb.k = "complete"

\* C25: for an interruption whose clip duration is available the completion
\* callback is invoked exactly once, and only after the duration timer has
\* fired and the fade-in has applied its last step; the state is playing-*
\* throughout the fade-out, the clip and the fade-in.  As a step property: the
\* duration timer and the fade-in's step timers end only by firing, the
\* fade-in calls the callback in the call after its last step and not before,
\* and does not lose it; and while a timer of the interruption is live the
\* state is not idle.
C25_CallbackAfterFadeIn ==
    [][/\ \A i \in 1..MaxTimers :
             (CarriesCompletion(timers[i]) /\ timers'[i] # timers[i])
                => (timers[i].due <= now /\ last'.op \in {"on_end_file", "do_fade"})
       /\ \A i \in 1..MaxTimers :
             (last'.op = "do_fade" /\ Due(i, "fade") /\ timers[i].cb.k = "complete"
              /\ timers'[i] # timers[i])
                => /\ ~last'.lost
                   /\ last'.calls > 0 <=> timers[i].step > steps
                   /\ last'.calls <= 1
       /\ (\E i \in 1..MaxTimers : OfInterruption(timers'[i]))
             => current_interruption_type' # None]_vars

\* The interrupt channel's volume for location data d, in the words of the
\* specification: ten times the location's volume when that is within 0..10,
\* and 100 when it is missing or out of range.
InterruptVolumeFor(d) ==
    IF d = <<>> THEN 100
    ELSE IF d[1].volume >= 0 /\ d[1].volume <= 10
         THEN Clamp(10 * d[1].volume, 0, 100)
         ELSE 100

\* C26: the volume handed to the interrupt channel is clamp(10*v, 0, 100) with
\* v the location's volume when it is within [0,10], and 100 when the
\* location's volume is missing or out of range: every accepted request
\* computes that value from the location it reads, and every load of a clip
\* hands the computed value to the interrupt channel.
C26_InterruptVolume ==
    [][/\ (last'.op \in {"prayer_timer", "campaign_timer", "trigger_birthday"}
           /\ FadeOutStarts)
             => target_volume' = InterruptVolumeFor(location_data)
       /\ target_volume' # target_volume
             => target_volume' = InterruptVolumeFor(location_data)
       /\ last'.loaded => interruption_volume' = target_volume']_vars

\* A clip is loaded at volume 100 for a location whose volume is out of range.
C26_Witness ==
    /\ last.loaded
    /\ location_data # <<>>
    /\ location_data[1].volume \notin 0..10
    /\ target_volume = 100
    /\ interruption_volume = 100

\* C27: between the start of a fade-out and the end of the matching fade-in
\* the main channel's volume is written by the fades only: a remote command
\* handled by the Player (start, stop, volume up, volume down) that arrives
\* while a timer of an interruption is live leaves the main volume unchanged.
C27_SingleVolumeWriter ==
    [][((\E i \in 1..MaxTimers : OfInterruption(timers[i]))
        /\ last'.op \in {"start", "start_preempted", "stop", "volume_up", "volume_down"})
          => main_volume' = main_volume]_vars

\* --------------------------------------------------------------- liveness
\* A threading.Timer that is due runs its function, a suspended thread is
\* resumed, and time passes; remote commands and sink failures may or may not
\* happen.  A step of a timer thread, of a resumed thread or of the clock is
\* recognised by the operation it records in `last`.
ThreadOps ==
    {"prayer_timer", "campaign_timer", "do_fade", "start_interruption",
     "on_end_file", "start", "tick"}

\* The guards of Tick.
TimePasses ==
    /\ setup_thread = <<>>
    /\ fade_thread = <<>>
    /\ \A i \in 1..MaxTimers : timers[i].kind # "free" => timers[i].due > now
    /\ Instants # {}
    /\ Min(Instants) <= MaxTime

\* The guards of the timer actions, of the two resuming actions and of Tick.
ThreadReady ==
    \/ \E i \in 1..MaxTimers : timers[i].kind # "free" /\ timers[i].due <= now
    \/ setup_thread # <<>>
    \/ fade_thread # <<>>
    \/ TimePasses

ThreadRuns ==
    /\ ThreadReady
    /\ last' \in [op : ThreadOps, type : Types \cup {None}, calls : 0..4,
                  raised : BOOLEAN, idle : BOOLEAN, paused : BOOLEAN,
                  exc : BOOLEAN, lost : BOOLEAN, ret : BOOLEAN, loaded : BOOLEAN]

Fairness == WF_last(ThreadRuns)

LiveSpec == Spec /\ Fairness

\* The fade-out of an interruption of this type is under way.
Started(type) ==
    \E i \in 1..MaxTimers :
        timers[i].kind = "fade" /\ timers[i].cb = Callback("start", type)

\* Completion handling for this type has just run.
CompletionRan(type) == last.calls > 0 /\ last.type = type

\* The horizon of the model is reached while a timer of an interruption of
\* this type is still waiting: the behaviour is cut, not finished.
CutShort(type) ==
    /\ \E i \in 1..MaxTimers :
          /\ OfInterruption(timers[i])
          /\ \/ timers[i].kind # "end" /\ timers[i].cb.type = type
             \/ timers[i].kind = "end" /\ completion_callback = type
    /\ \A i \in 1..MaxTimers : timers[i].kind # "free" => timers[i].due > now
    /\ Min(Instants) > MaxTime

\* The clip of this type was loaded and its duration could not be read, or a
\* player has stopped answering: cases in which no duration timer is set.
NoDuration(type) ==
    \/ last.op = "start_interruption" /\ last.type = type /\ last.calls = 0
         /\ \A i \in 1..MaxTimers : timers[i].kind # "end"
    \/ ~main_ok
    \/ ~interruption_ok

EntryAfter(type) == IF type = "prayer" THEN next_prayer' ELSE next_campaign'

\* Timer i of this type fires for an occurrence whose start is still ahead
\* and whose content does not resolve, and completion handling runs.
FailsToResolve(i, type) ==
    /\ Due(i, type)
    /\ timers[i].intr.start > now
    /\ type \notin cached
    /\ last'.op = IF type = "prayer" THEN "prayer_timer" ELSE "campaign_timer"
    /\ last'.calls > 0
    /\ Program(S)' = Program(IF type = "prayer"
                             THEN PlayInterruption(Fired(S, i), timers[i].intr)
                             ELSE CheckAndPlayCampaign(Fired(S, i), timers[i].intr))

\* C29: each scheduled occurrence is attempted at most once: after a prayer or
\* campaign whose content failed to resolve is completed by the failure path,
\* the recomputed entry is a later occurrence and no timer is left for the
\* occurrence that failed.
C29_AttemptedOnce ==
    [][\A type \in {"prayer", "campaign"} : \A i \in 1..MaxTimers :
          FailsToResolve(i, type)
            => /\ \/ EntryAfter(type) = <<>>
                  \/ EntryAfter(type)[1].start > timers[i].intr.start
               /\ \A j \in 1..MaxTimers :
                     timers'[j].kind = type => timers'[j].intr # timers[i].intr]_vars

\* The clip of this type is on the interrupt channel and its completion is
\* still to come: it settles, its duration timer waits, or its fade-in steps.
ClipPlaying(type) ==
    /\ interruption_file = type
    /\ \E i \in 1..MaxTimers :
          \/ timers[i].kind = "sleep" /\ timers[i].cb.type = type
          \/ timers[i].kind = "end" /\ completion_callback = type
          \/ timers[i].kind = "fade" /\ timers[i].cb = Callback("complete", type)

\* C30: whenever an interruption clip is playing on the interrupt channel,
\* from its load until its completion handling, the interruption state equals
\* that clip's kind; completion handling for a different interruption never
\* resets the state to idle while the clip is still playing.
C30_StateIsClipKind ==
    \A type \in Types : ClipPlaying(type) => current_interruption_type = type

\* The schedule of a type is the same before and after the step: its entry,
\* its timer field and its timers.
ScheduleUntouched(type) ==
    /\ type = "prayer" => next_prayer' = next_prayer /\ prayer_timer' = prayer_timer
    /\ type = "campaign" => next_campaign' = next_campaign /\ campaign_timer' = campaign_timer
    /\ \A i \in 1..MaxTimers :
          (timers[i].kind = type \/ timers'[i].kind = type) => timers'[i] = timers[i]

\* The campaign timer i fires and the pre-prayer guard skips the campaign.
SkippedByGuard(i) ==
    /\ Due(i, "campaign")
    /\ ~PrayerActive(S)
    /\ PrayerAboutToStart(S)
    /\ last'.op = "campaign_timer"
    /\ Program(S)' = Program(CheckAndPlayCampaign(Fired(S, i), timers[i].intr))

\* C31: completion handling for one type leaves the other type's schedule
\* untouched: a step in which the completion of a prayer runs leaves the
\* campaign entry, timer field and timers as they were, the completion of a
\* campaign leaves the prayer's, that of a birthday leaves both; a campaign
\* skipped by the pre-prayer guard gets no new timer in the skip, and no step
\* of a prayer or birthday installs a campaign timer.
C31_OtherScheduleUntouched ==
    [][/\ (last'.calls > 0 /\ last'.type = "prayer") => ScheduleUntouched("campaign")
       /\ (last'.calls > 0 /\ last'.type = "campaign") => ScheduleUntouched("prayer")
       /\ (last'.calls > 0 /\ last'.type = "birthday")
             => ScheduleUntouched("prayer") /\ ScheduleUntouched("campaign")
       /\ \A i \in 1..MaxTimers :
             SkippedByGuard(i)
               => /\ next_campaign' = next_campaign
                  /\ \A j \in 1..MaxTimers :
                        timers'[j].kind = "campaign" => j # i /\ timers'[j] = timers[j]
       /\ last'.type \in {"prayer", "birthday"}
             => \A j \in 1..MaxTimers :
                   timers'[j].kind = "campaign" => timers'[j] = timers[j]]_vars

\* The completion of a prayer has run, and the campaign that the guard
\* skipped is still the entry, with no campaign timer: after one start
\* command the campaign's timer has fired, its clip resolves and the players
\* work, and yet no clip was ever loaded.
C31_Witness ==
    /\ last.calls > 0
    /\ last.type = "prayer"
    /\ next_campaign # <<>>
    /\ LiveIn(S, "campaign") = {}
    /\ campaign_timer = Done
    /\ commands.n = 1
    /\ setup_thread = <<>>
    /\ "campaign" \in cached
    /\ main_ok /\ interruption_ok
    /\ interruption_file = None

\* C32: after Player.stop() no prayer or campaign timer remains live, and no
\* interruption starts playing until a new start command: the step of a stop
\* command ends with no timer of either type, and the step that follows a
\* stop starts no fade-out and loads no clip.
C32_StopSilencesSchedule ==
    [][/\ last'.op = "stop"
             => \A i \in 1..MaxTimers : timers'[i].kind \notin {"prayer", "campaign"}
       /\ last.op = "stop" => ~FadeOutStarts /\ ~last'.loaded]_vars

\* C33: for every first track with runtime R > 0 and every integer offset,
\* negative offsets and offsets beyond R included, the seek target issued by
\* play_track_at_offset lies in [0, R).
C33_SeekWithinTrack ==
    FirstTrackSeeks =>
        /\ playlist_pos.seek # <<>>
        /\ playlist_pos.seek[1] >= 0
        /\ playlist_pos.seek[1] < playlist_pos.runtime

\* An offset beyond the end of a 600-second track seeks to 540.
C33_Witness ==
    /\ FirstTrackSeeks
    /\ playlist_pos.runtime = 600
    /\ playlist_pos.offset > playlist_pos.runtime
    /\ playlist_pos.seek = <<540>>

\* C34: for any pattern of download successes and failures across
\* _setup_location and preload_next_tracks, each playlist index is loaded into
\* the main channel's queue at most once and in playlist order, and
\* added_tracks_count never exceeds playlist_length.
C34_QueueInOrder ==
    /\ \A m, n \in 1..Len(queue.loaded) : m < n => queue.loaded[m] < queue.loaded[n]
    /\ queue.added_tracks_count <= queue.playlist_length

\* A pass of the reconnect loop is made in this step.
AttemptMade == websocket'.attempts = websocket.attempts + 1

\* C36: in the WebSocket reconnect loop the delay starts at 1, doubles after
\* every failed connection attempt up to the cap of 60, and is reset to 1 only
\* after a connection has been established; it is within [1,60] in every
\* reachable state.
C36_ReconnectDelay ==
    [][/\ websocket'.reconnect_delay \in 1..60
       /\ (websocket'.running /\ ~websocket.running) => websocket'.reconnect_delay = 1
       /\ (AttemptMade /\ websocket'.outcome # "established")
             => websocket'.reconnect_delay
                   = (IF websocket.reconnect_delay * 2 < 60
                      THEN websocket.reconnect_delay * 2 ELSE 60)
       /\ (AttemptMade /\ websocket'.outcome = "established")
             => websocket'.reconnect_delay = 1]_vars

\* C37: in the SQS polling loop the retry delay is within [1,20] in every
\* reachable state: it doubles after each consecutive client error, capped at
\* 20, and is reset to 1 after every successful receive (a pass whose
\* exception ends the polling thread leaves no delay to speak of).
C37_RetryDelay ==
    [][/\ sqs'.retry_delay \in 1..20
       /\ (sqs'.alive /\ ~sqs.alive) => sqs'.retry_delay = 1
       /\ (sqs'.polls = sqs.polls + 1 /\ sqs'.outcome = "client_error")
             => sqs'.retry_delay
                   = (IF sqs.retry_delay * 2 < 20 THEN sqs.retry_delay * 2 ELSE 20)
       /\ (sqs'.polls = sqs.polls + 1 /\ sqs'.outcome \in {"empty", "message", "foreign"})
             => sqs'.retry_delay = 1]_vars

\* Client errors in a row have brought the delay to the cap: the last pass
\* slept 20 seconds and left the delay at 20.
C37_Witness ==
    /\ sqs.alive
    /\ sqs.outcome = "client_error"
    /\ sqs.retry_delay = 20
    /\ sqs.slept = 20
    /\ sqs.polls = 7

\* C35: after any sequence of volume-up, volume-down, set_volume and
\* location-setup operations Player.volume is within [0,100]: volume-up adds
\* 10 capped at 100, volume-down subtracts 10 floored at 0, and location setup
\* yields 10 times a location volume within 0..10, or 100 when it is missing
\* or invalid.
C35_VolumeRange ==
    [][/\ volume' >= 0 /\ volume' <= 100
       /\ last'.op = "volume_up"
             => volume' = (IF volume + 10 < 100 THEN volume + 10 ELSE 100)
       /\ last'.op = "volume_down"
             => volume' = (IF volume - 10 > 0 THEN volume - 10 ELSE 0)
       /\ last'.op = "start"
             => volume' = (IF location_data'[1].volume >= 0 /\ location_data'[1].volume <= 10
                           THEN 10 * location_data'[1].volume ELSE 100)]_vars

\* Volume-down has met the floor: the volume is 0 after it, for a location
\* whose own volume is not 0.
C35_Witness ==
    /\ last.op = "volume_down"
    /\ volume = 0
    /\ location_data # <<>>
    /\ location_data[1].volume = 3
====
